---- MODULE Spec2Model ----
(***************************************************************************)
(* A model of cogserver.py: a GDAL raster exposed over HTTP as a virtual,  *)
(* never materialised, uncompressed tiled TIFF / BigTIFF.                   *)
(*                                                                         *)
(* Byte strings are sequences of integers 0..255.  Header text is a        *)
(* sequence of one-character strings.  Python integers are unbounded; the  *)
(* file offsets of a BigTIFF exceed the integer range of the model         *)
(* checker, so every offset and size is a two-limb number <<hi, lo>>       *)
(* standing for hi * LimbBase + lo with 0 <= lo < LimbBase (hi may be      *)
(* negative).  The content of a tile is opaque (it comes from GDAL): a     *)
(* slice of tile n is the record [src |-> "tile", num |-> n, lo, hi].      *)
(***************************************************************************)
EXTENDS Integers, Sequences, FiniteSets, TLC

(***************************************************************************)
(* Unbounded integers                                                      *)
(***************************************************************************)
LimbBase == 512 * 512

Norm(h, l) == <<h + (l \div LimbBase), l % LimbBase>>

BigOf(i) == Norm(0, i)

BAdd(a, b) == Norm(a[1] + b[1], a[2] + b[2])

BSub(a, b) == Norm(a[1] - b[1], a[2] - b[2])

\* a * k for an integer k small enough that lo * k fits
BMul(a, k) == Norm(a[1] * k, a[2] * k)

BLt(a, b) == a[1] < b[1] \/ (a[1] = b[1] /\ a[2] < b[2])

BLe(a, b) == a = b \/ BLt(a, b)

BMin(a, b) == IF BLt(b, a) THEN b ELSE a

BMax(a, b) == IF BLt(a, b) THEN b ELSE a

ToInt(a) == a[1] * LimbBase + a[2]

\* floor(a / d) and a mod d for a >= 0 and a divisor d with d * LimbBase in range
BDivSmall(a, d) == Norm(a[1] \div d, ((a[1] % d) * LimbBase + a[2]) \div d)

BModSmall(a, d) == ((a[1] % d) * LimbBase + a[2]) % d

\* floor(a / d), as an integer, for a >= 0 and any divisor d > 0: d is either a
\* multiple of LimbBase (every tile size is) or small
BFloorDiv(a, d) ==
    IF d % LimbBase = 0 THEN a[1] \div (d \div LimbBase)
    ELSE ToInt(BDivSmall(a, d))

\* 1 << 16 and 1 << 32
TwoPow16 == BigOf(256 * 256)

TwoPow32 == BMul(BMul(TwoPow16, 256), 256)

(***************************************************************************)
(* Optional values: None, or Some(x)                                       *)
(***************************************************************************)
None == <<>>

Some(x) == <<x>>

Val(o) == o[1]

\* the truth value Python gives an optional byte string
Truthy(o) == o # None /\ Len(Val(o)) > 0

(***************************************************************************)
(* struct.pack / struct.unpack, little endian                              *)
(***************************************************************************)
FormatSize(fmt) == CASE fmt = "<H" -> 2 [] fmt = "<I" -> 4 [] fmt = "<Q" -> 8

\* the w low bytes of a, least significant first, for 0 <= a < 2^47: the two
\* low bytes come from the low limb, the others from a \div 2^16
PackBytes(a, w) ==
    LET low == a[2] % 65536
        up == a[1] * (LimbBase \div 65536) + (a[2] \div 65536)
    IN  SubSeq(<<low % 256, low \div 256, up % 256, (up \div 256) % 256,
                 (up \div 65536) % 256, up \div 16777216, 0, 0>>, 1, w)

\* struct.pack raises struct.error unless 0 <= a < 2^(8 w)
PackOK(fmt, a) ==
    /\ BLe(BigOf(0), a)
    /\ FormatSize(fmt) = 2 => BLt(a, TwoPow16)
    /\ FormatSize(fmt) = 4 => BLt(a, TwoPow32)

pack(fmt, a) == PackBytes(a, FormatSize(fmt))

RECURSIVE unpack(_)
unpack(bytes) ==
    IF bytes = <<>> THEN BigOf(0)
    ELSE BAdd(BigOf(bytes[1]), BMul(unpack(Tail(bytes)), 256))

RECURSIVE Concat(_)
Concat(seqs) == IF seqs = <<>> THEN <<>> ELSE Head(seqs) \o Concat(Tail(seqs))

RECURSIVE SumLen(_)
SumLen(seqs) == IF seqs = <<>> THEN 0 ELSE Len(Head(seqs)) + SumLen(Tail(seqs))

\* bytes[a:b] for 0 <= a, b
Slice(bytes, a, b) ==
    LET hi == IF b < Len(bytes) THEN b ELSE Len(bytes)
    IN  IF a >= hi THEN <<>> ELSE SubSeq(bytes, a + 1, hi)

(***************************************************************************)
(* Module constants                                                        *)
(***************************************************************************)
TIFF_ASCII == 2
TIFF_SHORT == 3
TIFF_LONG == 4
TIFF_DOUBLE == 12
TIFF_LONG8 == 16

datatypesize(t) ==
    CASE t = TIFF_ASCII -> 1 [] t = TIFF_SHORT -> 2 [] t = TIFF_DOUBLE -> 8

TIFFTAG_IMAGEWIDTH == 256
TIFFTAG_IMAGELENGTH == 257
TIFFTAG_BITSPERSAMPLE == 258
TIFFTAG_COMPRESSION == 259
COMPRESSION_NONE == 1
TIFFTAG_PHOTOMETRIC == 262
PHOTOMETRIC_MINISBLACK == 1
PHOTOMETRIC_RGB == 2
TIFFTAG_SAMPLESPERPIXEL == 277
TIFFTAG_PLANARCONFIG == 284
PLANARCONFIG_CONTIG == 1
TIFFTAG_TILEWIDTH == 322
TIFFTAG_TILELENGTH == 323
TIFFTAG_TILEOFFSETS == 324
TIFFTAG_TILEBYTECOUNTS == 325
TIFFTAG_EXTRASAMPLES == 338
EXTRASAMPLE_UNSPECIFIED == 0
EXTRASAMPLE_UNASSALPHA == 2
TIFFTAG_SAMPLEFORMAT == 339
SAMPLEFORMAT_UINT == 1
SAMPLEFORMAT_INT == 2
SAMPLEFORMAT_IEEEFP == 3
SAMPLEFORMAT_COMPLEXINT == 5
SAMPLEFORMAT_COMPLEXIEEEFP == 6
TIFFTAG_GEOPIXELSCALE == 33550
TIFFTAG_GEOTIEPOINTS == 33922
TIFFTAG_GEOTRANSMATRIX == 34264
TIFFTAG_GEOKEYDIRECTORY == 34735
TIFFTAG_GEODOUBLEPARAMS == 34736
TIFFTAG_GEOASCIIPARAMS == 34737
TIFFTAG_GDAL_NODATA == 42113

geotiff_tagids ==
    {TIFFTAG_GEOPIXELSCALE, TIFFTAG_GEOTIEPOINTS, TIFFTAG_GEOTRANSMATRIX,
     TIFFTAG_GEOKEYDIRECTORY, TIFFTAG_GEODOUBLEPARAMS, TIFFTAG_GEOASCIIPARAMS}

\* gdal.GetDataTypeSize, in bits
GetDataTypeSize(dt) ==
    CASE dt = "GDT_Byte" -> 8
      [] dt \in {"GDT_UInt16", "GDT_Int16"} -> 16
      [] dt \in {"GDT_UInt32", "GDT_Int32", "GDT_Float32", "GDT_CInt16"} -> 32
      [] dt \in {"GDT_Float64", "GDT_CInt32", "GDT_CFloat32"} -> 64
      [] dt = "GDT_CFloat64" -> 128

(***************************************************************************)
(* class Raster.  ds is the opened GDAL dataset: RasterXSize, RasterYSize, *)
(* RasterCount, DataType, ColorInterp (per band), NoDataValue (None or the *)
(* bytes of str(nv)) and GTiffDir, the directory of the one-pixel GeoTIFF  *)
(* GDAL writes for the dataset's georeferencing.                           *)
(***************************************************************************)
Raster(ds) ==
    LET tile_width == 512
        tile_height == 512
        tile_x_count == (ds.RasterXSize + tile_width - 1) \div tile_width
        tile_y_count == (ds.RasterYSize + tile_height - 1) \div tile_height
    IN  [ds |-> ds,
         width |-> ds.RasterXSize,
         height |-> ds.RasterYSize,
         datatype |-> ds.DataType,
         bitspersample |-> GetDataTypeSize(ds.DataType),
         num_bands |-> ds.RasterCount,
         tile_width |-> tile_width,
         tile_height |-> tile_height,
         tile_x_count |-> tile_x_count,
         tile_y_count |-> tile_y_count,
         tile_count |-> tile_x_count * tile_y_count]

VARIABLES rast, ctx, request, response, decoded

vars == <<rast, ctx, request, response, decoded>>

(***************************************************************************)
(* class TIFFGenerator                                                     *)
(***************************************************************************)
\* TIFFGenerator._init: the fields that depend on the format mode
FormatFields(c) ==
    IF c.bigtiff
    THEN [TIFF_SIGNATURE |-> <<73, 73, 43, 0, 8, 0, 0, 0>>,
          sig_size |-> 8,
          ifd_offset_formatter |-> "<Q",
          ifd_offset_size |-> 8,
          num_tags_formatter |-> "<Q",
          num_tags_size |-> 8,
          number_of_values_formatter |-> "<Q",
          tag_data_or_offset_formatter |-> "<Q",
          tagsize |-> 20,
          tileoffsetype |-> TIFF_LONG8,
          tileoffsetsize |-> 8]
    ELSE [TIFF_SIGNATURE |-> <<73, 73, 42, 0>>,
          sig_size |-> 4,
          ifd_offset_formatter |-> c.long_formatter,
          ifd_offset_size |-> c.long_size,
          num_tags_formatter |-> "<H",
          num_tags_size |-> 2,
          number_of_values_formatter |-> c.long_formatter,
          tag_data_or_offset_formatter |-> c.long_formatter,
          tagsize |-> 12,
          tileoffsetype |-> TIFF_LONG,
          tileoffsetsize |-> 4]

init(c) == [c EXCEPT !.fmt = FormatFields(c), !.init_calls = @ + 1]

\* TIFFGenerator._geotiff_tags: the GeoTIFF entries of the temporary file's
\* directory, in directory order
geotiff_tags(dir) ==
    LET found == SelectSeq(dir, LAMBDA e : e.tagid \in geotiff_tagids)
    IN  [i \in 1..Len(found) |->
            [tagid |-> found[i].tagid, tagtype |-> found[i].tagtype,
             valrepeat |-> found[i].valrepeat,
             data |-> Slice(found[i].data, 0,
                            found[i].valrepeat * datatypesize(found[i].tagtype))]]

Photometric(r) ==
    IF r.num_bands >= 3 /\ r.ds.ColorInterp[1] = "GCI_RedBand"
    THEN PHOTOMETRIC_RGB ELSE PHOTOMETRIC_MINISBLACK

NeedsExtraSamples(r, photometric) ==
    \/ r.num_bands = 2
    \/ (r.num_bands >= 3 /\ photometric = PHOTOMETRIC_MINISBLACK)
    \/ (r.num_bands > 3 /\ photometric = PHOTOMETRIC_RGB)

ExtraSamples(r, photometric) ==
    LET num_extrasamples ==
            IF photometric = PHOTOMETRIC_RGB THEN r.num_bands - 3 ELSE r.num_bands - 1
        first_extrasample_band == IF photometric = PHOTOMETRIC_RGB THEN 4 ELSE 2
        first_extrasample ==
            IF r.ds.ColorInterp[first_extrasample_band] = "GCI_AlphaBand"
            THEN EXTRASAMPLE_UNASSALPHA ELSE EXTRASAMPLE_UNSPECIFIED
    IN  pack("<I", BigOf(first_extrasample))
          \o Concat([i \in 1..(num_extrasamples - 1) |->
                        pack("<I", BigOf(EXTRASAMPLE_UNSPECIFIED))])

\* str(nv).encode('ascii') + (b' ' * 7) + b'\x00'
NoData(nv) == nv \o <<32, 32, 32, 32, 32, 32, 32>> \o <<0>>

\* faulty variant: line 164 forgotten, GDAL_NODATA is not counted
Construct0NoDataNotCounted(r) ==
    LET photometric == Photometric(r)
        extra == NeedsExtraSamples(r, photometric)
        gt == geotiff_tags(r.ds.GTiffDir)
        nv == r.ds.NoDataValue
    IN  [bigtiff |-> FALSE,
         long_formatter |-> "<I",
         long_size |-> 4,
         num_tags |-> 12 + (IF extra THEN 1 ELSE 0) + Len(gt),
         tags_written |-> 0,
         photometric |-> photometric,
         extrasamples |-> IF extra THEN Some(ExtraSamples(r, photometric)) ELSE None,
         geotifftags |-> gt,
         nodata |-> IF nv # None THEN Some(NoData(Val(nv))) ELSE None,
         init_calls |-> 0,
         fmt |-> <<>>]

\* TIFFGenerator.__init__ up to the first _init() call
Construct0(r) ==
    LET photometric == Photometric(r)
        extra == NeedsExtraSamples(r, photometric)
        gt == geotiff_tags(r.ds.GTiffDir)
        nv == r.ds.NoDataValue
    IN  [bigtiff |-> FALSE,
         long_formatter |-> "<I",
         long_size |-> 4,
         num_tags |-> 12 + (IF extra THEN 1 ELSE 0) + Len(gt)
                         + (IF nv # None THEN 1 ELSE 0),
         tags_written |-> 0,
         photometric |-> photometric,
         extrasamples |-> IF extra THEN Some(ExtraSamples(r, photometric)) ELSE None,
         geotifftags |-> gt,
         nodata |-> IF nv # None THEN Some(NoData(Val(nv))) ELSE None,
         init_calls |-> 0,
         fmt |-> <<>>]

getheadersize_without_tag_data(c) ==
    c.fmt.sig_size + c.fmt.ifd_offset_size + c.fmt.num_tags_size
        + c.num_tags * c.fmt.tagsize + c.fmt.ifd_offset_size

\* whether the ExtraSamples value goes to the tag-data region
ExtraSamplesOutOfLine(c) ==
    c.extrasamples # None /\ Len(Val(c.extrasamples)) > c.long_size

\* faulty variant: the BitsPerSample array counted with the width of an offset
getheadersizeOffsetWide(r, c) ==
    getheadersize_without_tag_data(c)
      + (IF r.num_bands > 1 THEN c.fmt.ifd_offset_size * r.num_bands ELSE 0)
      + (IF ExtraSamplesOutOfLine(c) THEN Len(Val(c.extrasamples)) ELSE 0)
      + SumLen([i \in 1..Len(c.geotifftags) |-> c.geotifftags[i].data])
      + (IF Truthy(c.nodata) THEN Len(Val(c.nodata)) ELSE 0)

getheadersize(r, c) ==
    getheadersize_without_tag_data(c)
      + (IF r.num_bands > 1 THEN c.long_size * r.num_bands ELSE 0)
      + (IF ExtraSamplesOutOfLine(c) THEN Len(Val(c.extrasamples)) ELSE 0)
      + SumLen([i \in 1..Len(c.geotifftags) |-> c.geotifftags[i].data])
      + (IF Truthy(c.nodata) THEN Len(Val(c.nodata)) ELSE 0)

tilesize(r) ==
    (r.num_bands * r.tile_width * r.tile_height * r.bitspersample) \div 8

dataoffset(r, c) ==
    getheadersize(r, c)
      + (IF r.tile_count > 1 THEN 2 * r.tile_count * c.fmt.tileoffsetsize ELSE 0)

getfilesize(r, c) == BAdd(BigOf(dataoffset(r, c)), BMul(BigOf(tilesize(r)), r.tile_count))

\* faulty variant: the limit of a signed 32-bit offset
NeedsBigTIFFSigned(filesize) == ~ BLt(filesize, BDivSmall(TwoPow32, 2))

\* the test of line 169 on the Classic file size
NeedsBigTIFF(filesize) == ~ BLt(filesize, TwoPow32)

\* TIFFGenerator.__init__
TIFFGenerator(r) ==
    LET c1 == init(Construct0(r))
    IN  IF ~ c1.bigtiff /\ NeedsBigTIFF(getfilesize(r, c1))
        THEN init([c1 EXCEPT !.bigtiff = TRUE])
        ELSE c1

Tag(tagid, tagtype, num_occurences, tagvalueoroffset) ==
    [tagid |-> tagid, tagtype |-> tagtype, num_occurences |-> num_occurences,
     tagvalueoroffset |-> tagvalueoroffset]

\* TIFFGenerator.write_tag: the bytes of one directory entry
write_tag(c, t) ==
    pack("<H", BigOf(t.tagid)) \o pack("<H", BigOf(t.tagtype))
      \o pack(c.fmt.number_of_values_formatter, BigOf(t.num_occurences))
      \o pack(c.fmt.tag_data_or_offset_formatter, t.tagvalueoroffset)

SampleFormat(dt) ==
    CASE dt \in {"GDT_Byte", "GDT_UInt16", "GDT_UInt32"} -> SAMPLEFORMAT_UINT
      [] dt \in {"GDT_Int16", "GDT_Int32"} -> SAMPLEFORMAT_INT
      [] dt \in {"GDT_Float32", "GDT_Float64"} -> SAMPLEFORMAT_IEEEFP
      [] dt \in {"GDT_CInt16", "GDT_CInt32"} -> SAMPLEFORMAT_COMPLEXINT
      [] dt \in {"GDT_CFloat32", "GDT_CFloat64"} -> SAMPLEFORMAT_COMPLEXIEEEFP

\* tag_data_offset after the BitsPerSample entry was written (lines 264-279)
TagDataOffsetAfterBits(r, c) ==
    getheadersize_without_tag_data(c)
      + (IF r.num_bands > 1 THEN c.long_size * r.num_bands ELSE 0)

\* the values of the TileOffsets and TileByteCounts entries (lines 297-311)
TileTableOffsets(r, c) ==
    IF r.tile_count = 1
    THEN <<BigOf(dataoffset(r, c)), BigOf(tilesize(r))>>
    ELSE LET offset ==
                 TagDataOffsetAfterBits(r, c)
                   + (IF ExtraSamplesOutOfLine(c) THEN Len(Val(c.extrasamples)) ELSE 0)
                   + SumLen([i \in 1..Len(c.geotifftags) |-> c.geotifftags[i].data])
                   + (IF c.nodata # None THEN Len(Val(c.nodata)) ELSE 0)
         IN  <<BigOf(offset), BigOf(offset + r.tile_count * c.fmt.tileoffsetsize)>>

\* the ExtraSamples entry (lines 319-326)
ExtraSamplesTag(r, c) ==
    IF c.extrasamples = None THEN <<>>
    ELSE IF Len(Val(c.extrasamples)) > c.long_size
         THEN <<Tag(TIFFTAG_EXTRASAMPLES, TIFF_LONG,
                    Len(Val(c.extrasamples)) \div c.long_size,
                    BigOf(TagDataOffsetAfterBits(r, c)))>>
         ELSE <<Tag(TIFFTAG_EXTRASAMPLES, TIFF_LONG, 1, unpack(Val(c.extrasamples)))>>

\* faulty variant: line 323 forgotten
TagDataOffsetAfterExtraNotAdvanced(r, c) == TagDataOffsetAfterBits(r, c)

\* tag_data_offset after the ExtraSamples entry was written
TagDataOffsetAfterExtra(r, c) ==
    TagDataOffsetAfterBits(r, c)
      + (IF ExtraSamplesOutOfLine(c) THEN Len(Val(c.extrasamples)) ELSE 0)

\* the GeoTIFF entries (lines 343-345)
GeoTags(r, c) ==
    [i \in 1..Len(c.geotifftags) |->
        Tag(c.geotifftags[i].tagid, c.geotifftags[i].tagtype, c.geotifftags[i].valrepeat,
            BigOf(TagDataOffsetAfterExtra(r, c)
                    + SumLen([j \in 1..(i - 1) |-> c.geotifftags[j].data])))]

\* the GDAL_NODATA entry (lines 347-350)
NoDataTag(r, c) ==
    IF c.nodata = None THEN <<>>
    ELSE <<Tag(TIFFTAG_GDAL_NODATA, TIFF_ASCII, Len(Val(c.nodata)),
               BigOf(TagDataOffsetAfterExtra(r, c)
                       + SumLen([j \in 1..Len(c.geotifftags) |-> c.geotifftags[j].data])))>>

\* faulty variant: SampleFormat written before ExtraSamples
HeaderTagsSampleFormatFirst(r, c) ==
    <<Tag(TIFFTAG_IMAGEWIDTH, TIFF_LONG, 1, BigOf(r.width)),
      Tag(TIFFTAG_IMAGELENGTH, TIFF_LONG, 1, BigOf(r.height)),
      Tag(TIFFTAG_BITSPERSAMPLE, TIFF_LONG, r.num_bands,
          IF r.num_bands > 1 THEN BigOf(getheadersize_without_tag_data(c))
          ELSE BigOf(r.bitspersample)),
      Tag(TIFFTAG_COMPRESSION, TIFF_LONG, 1, BigOf(COMPRESSION_NONE)),
      Tag(TIFFTAG_PHOTOMETRIC, TIFF_LONG, 1, BigOf(c.photometric)),
      Tag(TIFFTAG_SAMPLESPERPIXEL, TIFF_LONG, 1, BigOf(r.num_bands)),
      Tag(TIFFTAG_PLANARCONFIG, TIFF_LONG, 1, BigOf(PLANARCONFIG_CONTIG)),
      Tag(TIFFTAG_TILEWIDTH, TIFF_LONG, 1, BigOf(r.tile_width)),
      Tag(TIFFTAG_TILELENGTH, TIFF_LONG, 1, BigOf(r.tile_height)),
      Tag(TIFFTAG_TILEOFFSETS, c.fmt.tileoffsetype, r.tile_count, TileTableOffsets(r, c)[1]),
      Tag(TIFFTAG_TILEBYTECOUNTS, c.fmt.tileoffsetype, r.tile_count,
          TileTableOffsets(r, c)[2])>>
      \o <<Tag(TIFFTAG_SAMPLEFORMAT, TIFF_LONG, 1, BigOf(SampleFormat(r.datatype)))>>
      \o ExtraSamplesTag(r, c)
      \o GeoTags(r, c)
      \o NoDataTag(r, c)

\* the directory entries generate_header writes, in the order it writes them
HeaderTags(r, c) ==
    <<Tag(TIFFTAG_IMAGEWIDTH, TIFF_LONG, 1, BigOf(r.width)),
      Tag(TIFFTAG_IMAGELENGTH, TIFF_LONG, 1, BigOf(r.height)),
      Tag(TIFFTAG_BITSPERSAMPLE, TIFF_LONG, r.num_bands,
          IF r.num_bands > 1 THEN BigOf(getheadersize_without_tag_data(c))
          ELSE BigOf(r.bitspersample)),
      Tag(TIFFTAG_COMPRESSION, TIFF_LONG, 1, BigOf(COMPRESSION_NONE)),
      Tag(TIFFTAG_PHOTOMETRIC, TIFF_LONG, 1, BigOf(c.photometric)),
      Tag(TIFFTAG_SAMPLESPERPIXEL, TIFF_LONG, 1, BigOf(r.num_bands)),
      Tag(TIFFTAG_PLANARCONFIG, TIFF_LONG, 1, BigOf(PLANARCONFIG_CONTIG)),
      Tag(TIFFTAG_TILEWIDTH, TIFF_LONG, 1, BigOf(r.tile_width)),
      Tag(TIFFTAG_TILELENGTH, TIFF_LONG, 1, BigOf(r.tile_height)),
      Tag(TIFFTAG_TILEOFFSETS, c.fmt.tileoffsetype, r.tile_count, TileTableOffsets(r, c)[1]),
      Tag(TIFFTAG_TILEBYTECOUNTS, c.fmt.tileoffsetype, r.tile_count,
          TileTableOffsets(r, c)[2])>>
      \o ExtraSamplesTag(r, c)
      \o <<Tag(TIFFTAG_SAMPLEFORMAT, TIFF_LONG, 1, BigOf(SampleFormat(r.datatype)))>>
      \o GeoTags(r, c)
      \o NoDataTag(r, c)

\* the out-of-line tag data generate_header appends after the directory
\* (lines 357-368)
TagData(r, c) ==
    (IF r.num_bands > 1
     THEN Concat([i \in 1..r.num_bands |-> pack(c.long_formatter, BigOf(r.bitspersample))])
     ELSE <<>>)
      \o (IF ExtraSamplesOutOfLine(c) THEN Val(c.extrasamples) ELSE <<>>)
      \o Concat([i \in 1..Len(c.geotifftags) |-> c.geotifftags[i].data])
      \o (IF c.nodata # None THEN Val(c.nodata) ELSE <<>>)

\* every struct.pack of generate_header gets a value of its format's range
HeaderPackOK(r, c) ==
    /\ PackOK(c.fmt.num_tags_formatter, BigOf(c.num_tags))
    /\ LET tags == HeaderTags(r, c)
       IN  \A i \in 1..Len(tags) :
              /\ PackOK("<H", BigOf(tags[i].tagid))
              /\ PackOK("<H", BigOf(tags[i].tagtype))
              /\ PackOK(c.fmt.number_of_values_formatter, BigOf(tags[i].num_occurences))
              /\ PackOK(c.fmt.tag_data_or_offset_formatter, tags[i].tagvalueoroffset)

\* the assertion of line 352, with the tags_written the calls of write_tag leave
TagsWrittenAfter(r, c) == c.tags_written + Len(HeaderTags(r, c))

\* TIFFGenerator.generate_header: the bytes returned
generate_header(r, c) ==
    LET tags == HeaderTags(r, c)
    IN  c.fmt.TIFF_SIGNATURE
          \o pack(c.fmt.ifd_offset_formatter, BigOf(c.fmt.sig_size + c.fmt.ifd_offset_size))
          \o pack(c.fmt.num_tags_formatter, BigOf(c.num_tags))
          \o Concat([i \in 1..Len(tags) |-> write_tag(c, tags[i])])
          \o pack(c.fmt.ifd_offset_formatter, BigOf(0))
          \o TagData(r, c)

\* b''.join(entries) for entries of w bytes each
Join(entries, w) ==
    [j \in 1..(Len(entries) * w) |-> entries[((j - 1) \div w) + 1][((j - 1) % w) + 1]]

\* faulty variant: the offsets count from the end of the header, not of the tables
generate_tileoffsetsFromHeader(r, c) ==
    LET data_offset == BigOf(getheadersize(r, c))
        tile_size == BigOf(tilesize(r))
    IN  Join([k \in 1..r.tile_count |->
                 pack(c.fmt.tag_data_or_offset_formatter,
                      BAdd(data_offset, BMul(tile_size, k - 1)))],
             FormatSize(c.fmt.tag_data_or_offset_formatter))

generate_tileoffsets(r, c) ==
    LET data_offset == BigOf(dataoffset(r, c))
        tile_size == BigOf(tilesize(r))
    IN  Join([k \in 1..r.tile_count |->
                 pack(c.fmt.tag_data_or_offset_formatter,
                      BAdd(data_offset, BMul(tile_size, k - 1)))],
             FormatSize(c.fmt.tag_data_or_offset_formatter))

generate_tilebytecounts(r, c) ==
    LET tile_size == BigOf(tilesize(r))
        entry == pack(c.fmt.tag_data_or_offset_formatter, tile_size)
    IN  Join([k \in 1..r.tile_count |-> entry],
             FormatSize(c.fmt.tag_data_or_offset_formatter))

\* header and tile tables: the part of the file before the tile data
NonData(r, c) ==
    generate_header(r, c)
      \o (IF r.tile_count > 1
          THEN generate_tileoffsets(r, c) \o generate_tilebytecounts(r, c)
          ELSE <<>>)

\* TIFFGenerator.gettiledata: tile_num's buffer, tilesize() bytes of pixel data
gettiledata(r, tile_num) ==
    [src |-> "tile", num |-> tile_num, lo |-> 0, hi |-> tilesize(r)]

(***************************************************************************)
(* Text: sequences of one-character strings                                *)
(***************************************************************************)
Digits == <<"0", "1", "2", "3", "4", "5", "6", "7", "8", "9">>

IsDigit(ch) == \E d \in 1..10 : Digits[d] = ch

DigitVal(ch) == (CHOOSE d \in 1..10 : Digits[d] = ch) - 1

\* '%d' % a, for a >= 0
RECURSIVE Dec(_)
Dec(a) ==
    IF BLt(a, BigOf(10)) THEN <<Digits[a[2] + 1]>>
    ELSE Dec(BDivSmall(a, 10)) \o <<Digits[BModSmall(a, 10) + 1]>>

\* int(text) succeeds on a non-empty run of decimal digits
IntOK(text) == text # <<>> /\ \A i \in 1..Len(text) : IsDigit(text[i])

RECURSIVE int(_)
int(text) ==
    IF text = <<>> THEN BigOf(0)
    ELSE BAdd(BMul(int(SubSeq(text, 1, Len(text) - 1)), 10),
              BigOf(DigitVal(text[Len(text)])))

startswith(text, prefix) ==
    Len(text) >= Len(prefix) /\ SubSeq(text, 1, Len(prefix)) = prefix

endswith(text, suffix) ==
    Len(text) >= Len(suffix)
      /\ SubSeq(text, Len(text) - Len(suffix) + 1, Len(text)) = suffix

\* text.split(sep) for a one-character separator
RECURSIVE split(_, _)
split(text, sep) ==
    IF \A i \in 1..Len(text) : text[i] # sep THEN <<text>>
    ELSE LET k == CHOOSE i \in 1..Len(text) :
                      text[i] = sep /\ \A j \in 1..(i - 1) : text[j] # sep
         IN  <<SubSeq(text, 1, k - 1)>> \o split(SubSeq(text, k + 1, Len(text)), sep)

BytesEq == <<"b", "y", "t", "e", "s", "=">>

DotTif == <<".", "t", "i", "f">>

ImageGeoTiff == <<"i", "m", "a", "g", "e", "/", "g", "e", "o", "+", "t", "i", "f", "f">>

\* 'bytes %d-%d/%d' % (first, last, total)
ContentRange(first, last, total) ==
    <<"b", "y", "t", "e", "s", " ">> \o Dec(first) \o <<"-">> \o Dec(last)
      \o <<"/">> \o Dec(total)

(***************************************************************************)
(* The response of one request, as BaseHTTPRequestHandler builds it:       *)
(* status is 0 until send_response is called; exception names the          *)
(* exception that left the handler ("" when it returned), after which      *)
(* socketserver logs it and closes the connection.                         *)
(***************************************************************************)
NoResponse ==
    [status |-> 0, headers |-> <<>>, ended |-> FALSE, body |-> <<>>, exception |-> ""]

send_response(resp, code) == [resp EXCEPT !.status = code]

send_header(resp, name, value) ==
    [resp EXCEPT !.headers = Append(@, [name |-> name, value |-> value])]

end_headers(resp) == [resp EXCEPT !.ended = TRUE]

write(resp, chunk) == [resp EXCEPT !.body = Append(@, chunk)]

raise(resp, name) == [resp EXCEPT !.exception = name]

Bytes(data) == [src |-> "bytes", data |-> data]

\* buf[a:b] of a tile buffer, a and b unbounded and non-negative
TileSlice(buf, a, b) ==
    LET len == BigOf(buf.hi - buf.lo)
        lo == ToInt(BMin(a, len))
        hi == ToInt(BMin(b, len))
    IN  [buf EXCEPT !.lo = buf.lo + lo, !.hi = buf.lo + (IF hi < lo THEN lo ELSE hi)]

(***************************************************************************)
(* generate_tiff                                                           *)
(***************************************************************************)
\* lines 444-452: the exception the parsing of the Range value raises, or ""
RangeError(rang) ==
    IF ~ startswith(rang, BytesEq) THEN "AssertionError"
    ELSE LET parts == split(SubSeq(rang, Len(BytesEq) + 1, Len(rang)), "-")
         IN  IF ~ IntOK(parts[1]) THEN "ValueError"
             ELSE IF Len(parts) < 2 THEN "IndexError"
             ELSE IF ~ IntOK(parts[2]) THEN "ValueError"
             ELSE IF ~ BLt(BigOf(0),
                           BAdd(BSub(int(parts[2]), int(parts[1])), BigOf(1)))
                  THEN "AssertionError"
             ELSE ""

RangeStart(rang) == int(split(SubSeq(rang, Len(BytesEq) + 1, Len(rang)), "-")[1])

RangeSize(rang) ==
    LET parts == split(SubSeq(rang, Len(BytesEq) + 1, Len(rang)), "-")
    IN  BAdd(BSub(int(parts[2]), int(parts[1])), BigOf(1))

\* line 458-459
ClampSize(start, size, filesize) ==
    IF ~ BLt(BAdd(start, size), filesize) THEN BSub(filesize, start) ELSE size

\* the exception generate_header raises, or ""
HeaderError(r, c) ==
    IF ~ HeaderPackOK(r, c) THEN "struct.error"
    ELSE IF TagsWrittenAfter(r, c) # c.num_tags THEN "AssertionError"
    ELSE ""

FirstTile(r, start, non_data_length) ==
    BFloorDiv(BSub(start, BigOf(non_data_length)), tilesize(r))

\* faulty variant: the "- 1" of line 481 is forgotten
LastTileNoMinusOne(r, start, size, non_data_length) ==
    BFloorDiv(BSub(BAdd(start, size), BigOf(non_data_length)), tilesize(r))

LastTile(r, start, size, non_data_length) ==
    BFloorDiv(BSub(BSub(BAdd(start, size), BigOf(1)), BigOf(non_data_length)), tilesize(r))

\* faulty variant: line 487 slices [off:size] instead of [off:off+size]
TileExtractNoOff(r, tile_num, first_tile, last_tile, start, size, non_data_length) ==
    LET tiledata == gettiledata(r, tile_num)
        off == BSub(start, BAdd(BigOf(non_data_length),
                                BMul(BigOf(tilesize(r)), first_tile)))
    IN  IF tile_num = first_tile
        THEN IF tile_num = last_tile
             THEN TileSlice(tiledata, off, size)
             ELSE TileSlice(tiledata, off, BigOf(tilesize(r)))
        ELSE IF tile_num = last_tile
             THEN TileSlice(tiledata, BigOf(0),
                            BSub(BAdd(start, size),
                                 BAdd(BigOf(non_data_length),
                                      BMul(BigOf(tilesize(r)), last_tile))))
             ELSE tiledata

\* lines 484-492: what is written of tile tile_num
TileExtract(r, tile_num, first_tile, last_tile, start, size, non_data_length) ==
    LET tiledata == gettiledata(r, tile_num)
        off == BSub(start, BAdd(BigOf(non_data_length),
                                BMul(BigOf(tilesize(r)), first_tile)))
    IN  IF tile_num = first_tile
        THEN IF tile_num = last_tile
             THEN TileSlice(tiledata, off, BAdd(off, size))
             ELSE TileSlice(tiledata, off, BigOf(tilesize(r)))
        ELSE IF tile_num = last_tile
             THEN TileSlice(tiledata, BigOf(0),
                            BSub(BAdd(start, size),
                                 BAdd(BigOf(non_data_length),
                                      BMul(BigOf(tilesize(r)), last_tile))))
             ELSE tiledata

\* lines 480-494: the tile loop; start and size as they are on line 480
TileLoop(r, resp, start, size, non_data_length) ==
    LET first_tile == FirstTile(r, start, non_data_length)
        last_tile == LastTile(r, start, size, non_data_length)
        nums == [k \in 1..(last_tile + 1 - first_tile) |-> first_tile + k - 1]
    IN  [resp |-> [resp EXCEPT !.body = @ \o
                     [k \in 1..Len(nums) |->
                         TileExtract(r, nums[k], first_tile, last_tile, start, size,
                                     non_data_length)]],
         decoded |-> nums]

\* lines 454-494: the Range path once start and size are parsed
RangePath(r, c, start, size0) ==
    LET filesize == getfilesize(r, c)
    IN  IF ~ BLt(start, filesize)
        THEN [resp |-> end_headers(send_header(NoResponse, "Content-Length", BigOf(0))),
              ctx |-> c, decoded |-> <<>>]
        ELSE
        LET size == ClampSize(start, size0, filesize)
            head == end_headers(
                      send_header(
                        send_header(
                          send_header(send_response(NoResponse, 206),
                                      "Content-Length", size),
                          "Content-Type", ImageGeoTiff),
                        "Content-Range",
                        ContentRange(start, BSub(BAdd(start, size), BigOf(1)), filesize)))
            non_data_length == dataoffset(r, c)
        IN  IF BLt(start, BigOf(non_data_length))
            THEN IF HeaderError(r, c) # ""
                 THEN [resp |-> raise(head, HeaderError(r, c)), ctx |-> c,
                       decoded |-> <<>>]
                 ELSE
                 LET non_data == NonData(r, c)
                     c2 == [c EXCEPT !.tags_written = TagsWrittenAfter(r, c)]
                     non_data_extract ==
                         Slice(non_data, ToInt(start),
                               ToInt(BMin(BAdd(start, size), BigOf(Len(non_data)))))
                     wrote == write(head, Bytes(non_data_extract))
                 IN  IF BLe(BAdd(start, size), BigOf(non_data_length))
                     THEN [resp |-> wrote, ctx |-> c2, decoded |-> <<>>]
                     ELSE LET t == TileLoop(r, wrote, BigOf(non_data_length),
                                            BSub(size, BigOf(Len(non_data_extract))),
                                            non_data_length)
                          IN  [resp |-> t.resp, ctx |-> c2, decoded |-> t.decoded]
            ELSE LET t == TileLoop(r, head, start, size, non_data_length)
                 IN  [resp |-> t.resp, ctx |-> c, decoded |-> t.decoded]

\* lines 496-505: the whole file
FullPath(r, c) ==
    LET started == send_response(NoResponse, 200)
    IN  IF HeaderError(r, c) # ""
        THEN [resp |-> raise(started, HeaderError(r, c)), ctx |-> c, decoded |-> <<>>]
        ELSE
        LET head == end_headers(
                      send_header(
                        send_header(started, "Content-Length", getfilesize(r, c)),
                        "Content-Type", ImageGeoTiff))
            nums == [k \in 1..r.tile_count |-> k - 1]
        IN  [resp |-> [write(head, Bytes(NonData(r, c))) EXCEPT !.body = @ \o
                          [k \in 1..r.tile_count |-> gettiledata(r, nums[k])]],
             ctx |-> [c EXCEPT !.tags_written = TagsWrittenAfter(r, c)],
             decoded |-> nums]

\* generate_tiff, with c the TIFFGenerator its first line constructs
generate_tiff(r, c, req) ==
    IF req.range # None
    THEN IF RangeError(Val(req.range)) # ""
         THEN [resp |-> raise(NoResponse, RangeError(Val(req.range))), ctx |-> c,
               decoded |-> <<>>]
         ELSE RangePath(r, c, RangeStart(Val(req.range)), RangeSize(Val(req.range)))
    ELSE FullPath(r, c)

(***************************************************************************)
(* class MyHandler                                                         *)
(***************************************************************************)
\* do_HEAD on a path ending in .tif, with c the TIFFGenerator it constructs
HeadTif(r, c) ==
    end_headers(
      send_header(
        send_header(
          send_header(send_response(NoResponse, 200),
                      "Accept-Ranges", <<"b", "y", "t", "e", "s">>),
          "Content-Length", getfilesize(r, c)),
        "Content-type", ImageGeoTiff))

\* both handlers on any other path
NotFound == end_headers(send_response(NoResponse, 404))

(***************************************************************************)
(* The rasters served and the requests received                            *)
(***************************************************************************)
MaxBands == 4
MaxTileX == 2
MaxTileY == 2

ColorInterp(kind, n) ==
    [i \in 1..n |->
        CASE kind = "gray" -> IF i = 1 THEN "GCI_GrayIndex" ELSE "GCI_Undefined"
          [] kind = "grayalpha" ->
                IF i = 1 THEN "GCI_GrayIndex"
                ELSE IF i = 2 THEN "GCI_AlphaBand" ELSE "GCI_Undefined"
          [] kind = "rgb" ->
                IF i = 1 THEN "GCI_RedBand"
                ELSE IF i = 2 THEN "GCI_GreenBand"
                ELSE IF i = 3 THEN "GCI_BlueBand" ELSE "GCI_Undefined"
          [] kind = "rgba" ->
                IF i = 1 THEN "GCI_RedBand"
                ELSE IF i = 2 THEN "GCI_GreenBand"
                ELSE IF i = 3 THEN "GCI_BlueBand"
                ELSE IF i = 4 THEN "GCI_AlphaBand" ELSE "GCI_Undefined"]

ColorKinds(n) ==
    {"gray"} \cup (IF n >= 2 THEN {"grayalpha"} ELSE {})
             \cup (IF n >= 3 THEN {"rgb"} ELSE {})
             \cup (IF n >= 4 THEN {"rgba"} ELSE {})

\* a directory entry of the temporary GeoTIFF with the bytes its offset points at
DirEntry(tagid, tagtype, valrepeat) ==
    [tagid |-> tagid, tagtype |-> tagtype, valrepeat |-> valrepeat,
     data |-> IF tagid \in geotiff_tagids
              THEN [j \in 1..(valrepeat * datatypesize(tagtype)) |-> (tagid + 7 * j) % 256]
              ELSE <<>>]

\* the baseline entries libtiff writes for a one-pixel image, in ascending order
BaseDir ==
    <<DirEntry(TIFFTAG_IMAGEWIDTH, TIFF_SHORT, 1),
      DirEntry(TIFFTAG_IMAGELENGTH, TIFF_SHORT, 1),
      DirEntry(TIFFTAG_BITSPERSAMPLE, TIFF_SHORT, 1),
      DirEntry(TIFFTAG_COMPRESSION, TIFF_SHORT, 1),
      DirEntry(TIFFTAG_PHOTOMETRIC, TIFF_SHORT, 1),
      DirEntry(TIFFTAG_SAMPLESPERPIXEL, TIFF_SHORT, 1),
      DirEntry(TIFFTAG_PLANARCONFIG, TIFF_SHORT, 1)>>

GTiffDirs(kind) ==
    CASE kind = "none" -> BaseDir
      [] kind = "scale" ->
            BaseDir \o <<DirEntry(TIFFTAG_GEOPIXELSCALE, TIFF_DOUBLE, 3),
                         DirEntry(TIFFTAG_GEOTIEPOINTS, TIFF_DOUBLE, 6),
                         DirEntry(TIFFTAG_GEOKEYDIRECTORY, TIFF_SHORT, 16),
                         DirEntry(TIFFTAG_GEOASCIIPARAMS, TIFF_ASCII, 7)>>
      [] kind = "matrix" ->
            BaseDir \o <<DirEntry(TIFFTAG_GEOTRANSMATRIX, TIFF_DOUBLE, 16),
                         DirEntry(TIFFTAG_GEOKEYDIRECTORY, TIFF_SHORT, 12),
                         DirEntry(TIFFTAG_GEODOUBLEPARAMS, TIFF_DOUBLE, 2),
                         DirEntry(TIFFTAG_GEOASCIIPARAMS, TIFF_ASCII, 10)>>

\* georeferencing and nodata (the bytes of str(nv): "0.0", "-9999.0")
Metadata ==
    {<<"none", None>>, <<"scale", Some(<<48, 46, 48>>)>>,
     <<"matrix", Some(<<45, 57, 57, 57, 57, 46, 48>>)>>}

\* the least number of tiles whose data alone reaches 2^32 bytes
ThresholdTiles(n, dt) ==
    LET per == (n * GetDataTypeSize(dt)) \div 8
    IN  ((65536 \div 4) + per - 1) \div per

Geometries(n) ==
    {[w |-> 500 * x, h |-> 400 * y, dt |-> "GDT_Byte", large |-> FALSE] :
        x \in 1..MaxTileX, y \in 1..MaxTileY}
      \cup (IF n >= 3
            THEN {[w |-> 512 * (ThresholdTiles(n, "GDT_CFloat64") - d), h |-> 300,
                   dt |-> "GDT_CFloat64", large |-> TRUE] : d \in {0, 1}}
            ELSE {})

\* the rasters of the BigTIFF threshold carry one kind of metadata
GeometryMetadata(n) ==
    {p \in Geometries(n) \X Metadata : p[1].large => p[2][1] = "scale"}

Datasets ==
    UNION {
      UNION {
        {[RasterXSize |-> p[1].w, RasterYSize |-> p[1].h, RasterCount |-> n,
          DataType |-> p[1].dt, ColorInterp |-> ColorInterp(k, n),
          NoDataValue |-> p[2][2], GTiffDir |-> GTiffDirs(p[2][1])] :
            p \in GeometryMetadata(n)}
        : k \in ColorKinds(n)}
      : n \in 1..MaxBands}

Paths ==
    {<<"/", "a", ".", "t", "i", "f">>, <<"/", "a", ".", "t", "x", "t">>}

\* byte positions at the borders of the segments of the file
Positions(r, c) ==
    LET ndl == dataoffset(r, c)
        fs == getfilesize(r, c)
    IN  {BigOf(0), BigOf(ndl - 1), BigOf(ndl), BigOf(ndl + tilesize(r) - 1),
         BigOf(ndl + tilesize(r)), BSub(fs, BigOf(1)), fs}

RangeValue(first, last) == BytesEq \o Dec(first) \o <<"-">> \o Dec(last)

MalformedRanges ==
    {<<"i", "t", "e", "m", "s", "=", "0", "-", "5">>,
     BytesEq \o <<"1", "0", "0", "-">>,
     BytesEq \o <<"-", "5", "0", "0">>,
     BytesEq \o <<"5">>,
     BytesEq \o <<"9", "-", "3">>}

Ranges(r, c) ==
    {None} \cup {Some(m) : m \in MalformedRanges}
           \cup {Some(RangeValue(p[1], p[2])) :
                    p \in {q \in Positions(r, c) \X Positions(r, c) : BLe(q[1], q[2])}}

Init ==
    /\ rast \in {Raster(ds) : ds \in Datasets}
    /\ ctx = None
    /\ request = None
    /\ response = NoResponse
    /\ decoded = <<>>

\* the server is between two requests
Idle == request = None

Respond(req, resp, c, tiles) ==
    /\ request' = Some(req)
    /\ response' = resp
    /\ ctx' = c
    /\ decoded' = tiles
    /\ UNCHANGED rast

do_HEAD(path) ==
    LET req == [method |-> "HEAD", path |-> path, range |-> None]
    IN  IF endswith(path, DotTif)
        THEN \E c \in {TIFFGenerator(rast)} : Respond(req, HeadTif(rast, c), Some(c), <<>>)
        ELSE Respond(req, NotFound, None, <<>>)

do_GET(path, range) ==
    LET req == [method |-> "GET", path |-> path, range |-> range]
    IN  IF endswith(path, DotTif)
        THEN \E c \in {TIFFGenerator(rast)} :
                \E out \in {generate_tiff(rast, c, req)} :
                    Respond(req, out.resp, Some(out.ctx), out.decoded)
        ELSE Respond(req, NotFound, None, <<>>)

\* the Range headers tried on a path
RangesFor(path) ==
    IF endswith(path, DotTif) THEN Ranges(rast, TIFFGenerator(rast)) ELSE {None}

\* the handler returned or raised: socketserver closes the connection and
\* serve_forever waits for the next request
shutdown_request ==
    /\ ~ Idle
    /\ request' = None
    /\ response' = NoResponse
    /\ ctx' = None
    /\ decoded' = <<>>
    /\ UNCHANGED rast

Next ==
    \/ /\ Idle
       /\ \E path \in Paths :
             \/ do_HEAD(path)
             \/ \E range \in RangesFor(path) : do_GET(path, range)
    \/ shutdown_request

Spec == Init /\ [][Next]_vars

(***************************************************************************)
(* Reading what was emitted                                                *)
(***************************************************************************)
Handled == request # None

Req == Val(request)

Ctx == Val(ctx)

TifRequest == Handled /\ endswith(Req.path, DotTif)

\* a GET on a .tif path without a Range header
FullGet == TifRequest /\ Req.method = "GET" /\ Req.range = None

\* a GET on a .tif path with a Range header
RangeGet == TifRequest /\ Req.method = "GET" /\ Req.range # None

\* ... whose Range header is bytes=<start>-<end> with 0 <= start <= end
WellFormedRangeGet == RangeGet /\ RangeError(Val(Req.range)) = ""

ReqStart == RangeStart(Val(Req.range))

ReqSize == RangeSize(Val(Req.range))

ReqEnd == BSub(BAdd(ReqStart, ReqSize), BigOf(1))

FileSize == getfilesize(rast, Ctx)

\* the end (exclusive) of the requested interval, clamped to the file
ClampedEnd == BMin(BAdd(ReqStart, ReqSize), FileSize)

ChunkLen(ch) == IF ch.src = "bytes" THEN Len(ch.data) ELSE ch.hi - ch.lo

\* the number of bytes of chunks lo..hi of a body
RECURSIVE BodyLenBetween(_, _, _)
BodyLenBetween(body, lo, hi) ==
    IF lo > hi THEN BigOf(0)
    ELSE IF lo = hi THEN BigOf(ChunkLen(body[lo]))
    ELSE BAdd(BodyLenBetween(body, lo, (lo + hi) \div 2),
              BodyLenBetween(body, ((lo + hi) \div 2) + 1, hi))

BodyLen(body) == BodyLenBetween(body, 1, Len(body))

NonEmptyChunks(body) == SelectSeq(body, LAMBDA ch : ChunkLen(ch) > 0)

HeaderValues(resp, field) ==
    {resp.headers[i].value : i \in {j \in 1..Len(resp.headers) :
                                      resp.headers[j].name \in field}}

\* header names are case-insensitive
ContentLengthField == {"Content-Length"}
ContentTypeField == {"Content-Type", "Content-type"}
ContentRangeField == {"Content-Range"}
AcceptRangesField == {"Accept-Ranges"}

\* the file as the specification defines it: header, tables, then the tiles in order;
\* the slice [a, b) of it, as a bytes chunk followed by one chunk per tile
VirtualSlice(r, c, a, b) ==
    LET prefix == NonData(r, c)
        plen == BigOf(Len(prefix))
        ts == BigOf(tilesize(r))
        TileStart(i) == BAdd(plen, BMul(ts, i))
        From(i) == BMax(a, TileStart(i))
        To(i) == BMin(b, TileStart(i + 1))
        tiles == {i \in 0..(r.tile_count - 1) : BLt(From(i), To(i))}
        first == CHOOSE i \in tiles : \A j \in tiles : i <= j
        head == IF BLt(a, plen) /\ BLt(a, b)
                THEN <<Bytes(Slice(prefix, ToInt(a), ToInt(BMin(b, plen))))>>
                ELSE <<>>
    IN  head \o
        (IF tiles = {} THEN <<>>
         ELSE [k \in 1..Cardinality(tiles) |->
                 [src |-> "tile", num |-> first + k - 1,
                  lo |-> ToInt(BSub(From(first + k - 1), TileStart(first + k - 1))),
                  hi |-> ToInt(BSub(To(first + k - 1), TileStart(first + k - 1)))]])

Ascending(seq) == \A i \in 1..(Len(seq) - 1) : seq[i] < seq[i + 1]

\* C1: for a well-formed Range request that starts inside the file, the chunks
\* written, in order, are the slice [start, min(start+size, file_size)) of
\* header ++ tables ++ tile 0 ++ ... ++ last tile; min(size, file_size - start)
\* bytes are written and the tiles are read in ascending order.
C1_RangeBodyIsSlice ==
    (WellFormedRangeGet /\ BLt(ReqStart, FileSize)) =>
        /\ NonEmptyChunks(response.body) = VirtualSlice(rast, Ctx, ReqStart, ClampedEnd)
        /\ BodyLen(response.body) = BMin(ReqSize, BSub(FileSize, ReqStart))
        /\ Ascending(decoded)

\* a request that starts in the header and ends inside tile 0 was answered
C1_Witness ==
    /\ WellFormedRangeGet
    /\ BLt(ReqStart, BigOf(dataoffset(rast, Ctx)))
    /\ BLt(BigOf(0), ReqStart)
    /\ Len(response.body) = 2
    /\ response.body[1].src = "bytes" /\ response.body[1].data # <<>>
    /\ response.body[2].src = "tile" /\ response.body[2].num = 0
    /\ response.body[2].lo = 0 /\ response.body[2].hi = tilesize(rast)

\* the tiles whose extent meets the clamped interval of the request
OverlappingTiles ==
    LET ndl == BigOf(dataoffset(rast, Ctx))
        ts == BigOf(tilesize(rast))
        a == ReqStart
        b == ClampedEnd
    IN  {i \in 0..(rast.tile_count - 1) :
            BLt(BMax(a, BAdd(ndl, BMul(ts, i))), BMin(b, BAdd(ndl, BMul(ts, i + 1))))}

\* C2: answering a well-formed Range request decodes exactly the tiles whose
\* extent [dataoffset + i*tilesize, dataoffset + (i+1)*tilesize) meets the
\* clamped interval, each once; none when the interval ends in the prefix.
C2_OnlyOverlappingTilesDecoded ==
    WellFormedRangeGet =>
        /\ {decoded[i] : i \in 1..Len(decoded)} = OverlappingTiles
        /\ \A i, j \in 1..Len(decoded) : decoded[i] = decoded[j] => i = j
        /\ BLe(ClampedEnd, BigOf(dataoffset(rast, Ctx))) => decoded = <<>>

\* a request ending on the last byte of a tile that is not the last one, so that
\* the next tile must not be read
C2_Witness ==
    /\ WellFormedRangeGet
    /\ decoded # <<>>
    /\ Len(decoded) < rast.tile_count
    /\ response.body[Len(response.body)].hi = tilesize(rast)
    /\ ClampedEnd = BAdd(BigOf(dataoffset(rast, Ctx)),
                         BMul(BigOf(tilesize(rast)), decoded[Len(decoded)] + 1))

(***************************************************************************)
(* Layout of the emitted file                                              *)
(***************************************************************************)
\* the answer to a GET without Range went through
FullGetDone == FullGet /\ response.status = 200 /\ response.exception = ""

\* the bytes written before the first tile
Emitted == response.body[1].data

DirStart(c) == c.fmt.sig_size + c.fmt.ifd_offset_size + c.fmt.num_tags_size

\* the little-endian value of the w bytes at offset off
ReadField(bytes, off, w) == unpack(SubSeq(bytes, off + 1, off + w))

\* directory entry k (from 0) as a reader of the format decodes it
ReadEntry(bytes, c, k) ==
    LET at == DirStart(c) + k * c.fmt.tagsize
        w == FormatSize(c.fmt.tag_data_or_offset_formatter)
    IN  [tagid |-> ToInt(ReadField(bytes, at, 2)),
         tagtype |-> ToInt(ReadField(bytes, at + 2, 2)),
         count |-> ReadField(bytes, at + 4, w),
         value |-> ReadField(bytes, at + 4 + w, w)]

ReadEntries(bytes, c) == [k \in 1..c.num_tags |-> ReadEntry(bytes, c, k - 1)]

\* the entry carrying tagid
EntryOf(entries, tagid) ==
    entries[CHOOSE k \in 1..Len(entries) : entries[k].tagid = tagid]

\* C3: the header, the tile tables and the tile data are contiguous and their
\* lengths are the ones the size functions report: len(generate_header()) =
\* getheadersize(), the tiles start at dataoffset(), and everything written
\* adds up to getfilesize(), the announced Content-Length.
C3_SizesAgree ==
    FullGetDone =>
        LET hdr == generate_header(rast, Ctx)
            tables == IF rast.tile_count > 1
                      THEN 2 * rast.tile_count * Ctx.fmt.tileoffsetsize ELSE 0
        IN  /\ Len(hdr) = getheadersize(rast, Ctx)
            /\ Len(TagData(rast, Ctx))
                 = getheadersize(rast, Ctx) - getheadersize_without_tag_data(Ctx)
            /\ SubSeq(Emitted, 1, Len(hdr)) = hdr
            /\ Len(Emitted) = Len(hdr) + tables
            /\ Len(Emitted) = dataoffset(rast, Ctx)
            /\ Len(response.body) = 1 + rast.tile_count
            /\ \A k \in 1..rast.tile_count :
                  response.body[k + 1] = gettiledata(rast, k - 1)
            /\ BodyLen(response.body) = FileSize
            /\ HeaderValues(response, ContentLengthField) = {FileSize}

\* a multi-tile file with every optional part of the header was served whole
C3_Witness ==
    /\ FullGetDone
    /\ rast.tile_count > 1
    /\ rast.num_bands > 1
    /\ ExtraSamplesOutOfLine(Ctx)
    /\ Ctx.geotifftags # <<>>
    /\ Ctx.nodata # None
    /\ Len(response.body) > 2

\* the size of the file laid out with Classic TIFF widths
ClassicFileSize(r) == getfilesize(r, init(Construct0(r)))

\* every offset, count and table entry of the file, before packing
WrittenValues(r, c) ==
    LET tags == HeaderTags(r, c)
    IN  {tags[i].tagvalueoroffset : i \in 1..Len(tags)}
          \cup {BigOf(tags[i].num_occurences) : i \in 1..Len(tags)}
          \cup {BigOf(tilesize(r)),
                BAdd(BigOf(dataoffset(r, c)), BMul(BigOf(tilesize(r)), r.tile_count - 1))}

\* C4: a constructed generator is BigTIFF exactly when the Classic size of the
\* file is at least 2^32 (Classic at 2^32 - 1, BigTIFF at 2^32); the layout is
\* initialised once more at most; the BigTIFF size is larger than the Classic
\* estimate; in Classic mode every offset and count written is below 2^32.
C4_BigTiffDecision ==
    ctx # None =>
        /\ Ctx.bigtiff <=> BLe(TwoPow32, ClassicFileSize(rast))
        /\ ~ NeedsBigTIFF(BSub(TwoPow32, BigOf(1))) /\ NeedsBigTIFF(TwoPow32)
        /\ Ctx.init_calls = IF Ctx.bigtiff THEN 2 ELSE 1
        /\ Ctx.fmt = FormatFields(Ctx)
        /\ Ctx.bigtiff => BLt(ClassicFileSize(rast), FileSize)
        /\ ~ Ctx.bigtiff => \A v \in WrittenValues(rast, Ctx) : BLt(v, TwoPow32)

\* a file of 2^32 bytes or more was laid out a second time, as BigTIFF
C4_Witness ==
    /\ ctx # None
    /\ Ctx.bigtiff
    /\ Ctx.init_calls = 2
    /\ Ctx.fmt.tagsize = 20
    /\ BLe(TwoPow32, FileSize)

\* C5: with more than one tile the offset table holds dataoffset + i*tilesize
\* and the byte-count table tilesize for every tile, 4 bytes wide in Classic
\* and 8 in BigTIFF, and the TileOffsets / TileByteCounts entries point at the
\* start of those tables; with one tile both values are inline.
C5_TileTables ==
    FullGetDone =>
        LET c == Ctx
            n == rast.tile_count
            w == IF c.bigtiff THEN 8 ELSE 4
            entries == ReadEntries(Emitted, c)
            offsets == EntryOf(entries, TIFFTAG_TILEOFFSETS)
            counts == EntryOf(entries, TIFFTAG_TILEBYTECOUNTS)
            tables == IF n > 1 THEN Len(Emitted) - 2 * n * w ELSE Len(Emitted)
        IN  /\ offsets.count = BigOf(n) /\ counts.count = BigOf(n)
            /\ offsets.tagtype = (IF c.bigtiff THEN TIFF_LONG8 ELSE TIFF_LONG)
            /\ counts.tagtype = offsets.tagtype
            /\ tables = getheadersize(rast, c)
            /\ IF n > 1
               THEN /\ offsets.value = BigOf(tables)
                    /\ counts.value = BigOf(tables + n * w)
                    /\ \A i \in 0..(n - 1) :
                          /\ ReadField(Emitted, tables + i * w, w)
                               = BAdd(BigOf(Len(Emitted)), BMul(BigOf(tilesize(rast)), i))
                          /\ ReadField(Emitted, tables + (n + i) * w, w)
                               = BigOf(tilesize(rast))
               ELSE /\ offsets.value = BigOf(Len(Emitted))
                    /\ counts.value = BigOf(tilesize(rast))

\* the tables of a BigTIFF file, 8 bytes an entry, were written
C5_Witness ==
    /\ FullGetDone
    /\ Ctx.bigtiff
    /\ rast.tile_count > 1
    /\ Len(Emitted) = getheadersize(rast, Ctx) + 16 * rast.tile_count

\* the tag ids of the directory in the order the specification lists them
ExpectedTagIds(c) ==
    <<TIFFTAG_IMAGEWIDTH, TIFFTAG_IMAGELENGTH, TIFFTAG_BITSPERSAMPLE,
      TIFFTAG_COMPRESSION, TIFFTAG_PHOTOMETRIC, TIFFTAG_SAMPLESPERPIXEL,
      TIFFTAG_PLANARCONFIG, TIFFTAG_TILEWIDTH, TIFFTAG_TILELENGTH,
      TIFFTAG_TILEOFFSETS, TIFFTAG_TILEBYTECOUNTS>>
      \o (IF c.extrasamples # None THEN <<TIFFTAG_EXTRASAMPLES>> ELSE <<>>)
      \o <<TIFFTAG_SAMPLEFORMAT>>
      \o [i \in 1..Len(c.geotifftags) |-> c.geotifftags[i].tagid]
      \o (IF c.nodata # None THEN <<TIFFTAG_GDAL_NODATA>> ELSE <<>>)

\* C9: the directory entries come in strictly ascending tag-id order, no id
\* twice, in the order 256 ... 325, [338], 339, GeoTIFF tags, [42113], and the
\* next-IFD offset after them is zero.
C9_DirectoryAscending ==
    FullGetDone =>
        LET c == Ctx
            entries == ReadEntries(Emitted, c)
            ids == [k \in 1..Len(entries) |-> entries[k].tagid]
        IN  /\ ReadField(Emitted, c.fmt.sig_size + c.fmt.ifd_offset_size,
                         c.fmt.num_tags_size) = BigOf(Len(ids))
            /\ Ascending(ids)
            /\ ids = ExpectedTagIds(c)
            /\ ReadField(Emitted, DirStart(c) + Len(ids) * c.fmt.tagsize,
                         c.fmt.ifd_offset_size) = BigOf(0)

\* a directory holding ExtraSamples, GeoTIFF tags and GDAL_NODATA was written
C9_Witness ==
    /\ FullGetDone
    /\ Ctx.extrasamples # None
    /\ Len(Ctx.geotifftags) >= 3
    /\ Ctx.nodata # None
    /\ ReadEntry(Emitted, Ctx, Ctx.num_tags - 1).tagid = TIFFTAG_GDAL_NODATA

(***************************************************************************)
(* Statements of the specification the program does not meet               *)
(***************************************************************************)
\* C6: a GET with a well-formed Range header is answered 206 with
\* Content-Range "bytes <start>-<end>/<total>" (<end> as requested, or the last
\* byte of the file when the request ends beyond it) and a Content-Length equal to
\* the number of body bytes; a GET without Range is answered 200 with
\* Content-Length = file size and the whole file.
C6_StatusAndRangeHeaders ==
    /\ WellFormedRangeGet =>
          /\ response.status = 206
          /\ HeaderValues(response, ContentRangeField)
               \subseteq {ContentRange(ReqStart, ReqEnd, FileSize),
                           ContentRange(ReqStart, BSub(ClampedEnd, BigOf(1)), FileSize)}
          /\ HeaderValues(response, ContentRangeField) # {}
          /\ HeaderValues(response, ContentLengthField) = {BodyLen(response.body)}
    /\ FullGet =>
          /\ response.status = 200
          /\ HeaderValues(response, ContentLengthField) = {FileSize}
          /\ BodyLen(response.body) = FileSize

\* C7: every response to a GET or HEAD on a .tif path carries Content-Type:
\* image/geo+tiff, Accept-Ranges: bytes and a Content-Length; any other path is
\* answered 404 with no body.
C7_ResponseHeaders ==
    /\ (TifRequest /\ response.exception = "") =>
          /\ HeaderValues(response, ContentTypeField) = {ImageGeoTiff}
          /\ HeaderValues(response, AcceptRangesField) = {<<"b", "y", "t", "e", "s">>}
          /\ HeaderValues(response, ContentLengthField) # {}
    /\ (Handled /\ ~ TifRequest) => (response.status = 404 /\ response.body = <<>>)

\* C8: a Range header that is not bytes=<start>-<end> with 0 <= start <= end
\* is answered with a 4xx status and no file byte is sent.
C8_MalformedRangeRejected ==
    (RangeGet /\ RangeError(Val(Req.range)) # "") =>
        /\ response.status \in 400..499
        /\ response.body = <<>>

\* C10: the ExtraSamples value is placed in the directory entry exactly when it
\* fits the offset field (4 bytes in Classic, 8 in BigTIFF), and out of line
\* otherwise.
C10_ExtraSamplesInline ==
    (ctx # None /\ Ctx.extrasamples # None) =>
        (ExtraSamplesOutOfLine(Ctx)
           <=> Len(Val(Ctx.extrasamples)) > FormatSize(Ctx.fmt.tag_data_or_offset_formatter))

(***************************************************************************)
(* Out-of-line tag data                                                    *)
(***************************************************************************)
\* the tags whose value generate_header stores after the directory, with the
\* bytes of the value, in the order the tags are written
OutOfLinePayloads(r, c) ==
    (IF r.num_bands > 1
     THEN <<[tagid |-> TIFFTAG_BITSPERSAMPLE,
             data |-> Concat([i \in 1..r.num_bands |->
                                 pack(c.long_formatter, BigOf(r.bitspersample))])]>>
     ELSE <<>>)
      \o (IF ExtraSamplesOutOfLine(c)
          THEN <<[tagid |-> TIFFTAG_EXTRASAMPLES, data |-> Val(c.extrasamples)]>>
          ELSE <<>>)
      \o [i \in 1..Len(c.geotifftags) |->
             [tagid |-> c.geotifftags[i].tagid, data |-> c.geotifftags[i].data]]
      \o (IF c.nodata # None
          THEN <<[tagid |-> TIFFTAG_GDAL_NODATA, data |-> Val(c.nodata)]>>
          ELSE <<>>)

\* the first byte after the directory and its next-IFD offset
DirEnd(c) == DirStart(c) + c.num_tags * c.fmt.tagsize + c.fmt.ifd_offset_size

\* C11: the offset written in every directory entry whose value is stored out
\* of line (BitsPerSample with several bands, ExtraSamples when out of line,
\* the GeoTIFF tags, GDAL_NODATA) is the position where that value begins in
\* the emitted header; the values follow each other in the order of their tags,
\* do not overlap, and lie between the end of the directory and getheadersize().
C11_OutOfLineOffsets ==
    FullGetDone =>
        LET c == Ctx
            ps == OutOfLinePayloads(rast, c)
            entries == ReadEntries(Emitted, c)
            hs == getheadersize(rast, c)
            off == [i \in 1..Len(ps) |-> ToInt(EntryOf(entries, ps[i].tagid).value)]
            end == [i \in 1..Len(ps) |-> off[i] + Len(ps[i].data)]
        IN  /\ SubSeq(Emitted, DirEnd(c) + 1, hs)
                 = Concat([i \in 1..Len(ps) |-> ps[i].data])
            /\ \A i \in 1..Len(ps) :
                  /\ Len(ps[i].data) > 0
                  /\ SubSeq(Emitted, off[i] + 1, end[i]) = ps[i].data
                  /\ off[i] = DirEnd(c) + SumLen([j \in 1..(i - 1) |-> ps[j].data])
                  /\ DirEnd(c) <= off[i] /\ end[i] <= hs
                  /\ \A j \in 1..(i - 1) : end[j] <= off[i]

\* a BigTIFF header with the four kinds of out-of-line value was written
C11_Witness ==
    /\ FullGetDone
    /\ Ctx.bigtiff
    /\ Len(OutOfLinePayloads(rast, Ctx)) >= 4
    /\ OutOfLinePayloads(rast, Ctx)[1].tagid = TIFFTAG_BITSPERSAMPLE
    /\ OutOfLinePayloads(rast, Ctx)[2].tagid = TIFFTAG_EXTRASAMPLES
    /\ OutOfLinePayloads(rast, Ctx)[Len(OutOfLinePayloads(rast, Ctx))].tagid
         = TIFFTAG_GDAL_NODATA
    /\ DirEnd(Ctx) < getheadersize(rast, Ctx)

(***************************************************************************)
(* The tag count                                                           *)
(***************************************************************************)
\* the request made generate_tiff call generate_header (lines 470 and 497)
HeaderGenerated ==
    /\ TifRequest
    /\ Req.method = "GET"
    /\ \/ Req.range = None
       \/ /\ WellFormedRangeGet
          /\ BLt(ReqStart, FileSize)
          /\ BLt(ReqStart, BigOf(dataoffset(rast, Ctx)))

\* the optional tags of the raster: ExtraSamples, the GeoTIFF tags, GDAL_NODATA
OptionalTags(c) ==
    (IF c.extrasamples # None THEN 1 ELSE 0) + Len(c.geotifftags)
      + (IF c.nodata # None THEN 1 ELSE 0)

\* C12: on HEAD, GET and GET with a well-formed Range the assertion
\* tags_written == num_tags of generate_header does not fail: num_tags is 12
\* plus one per optional tag present, it is the number of entries written and
\* the count field of the directory, and tags_written never exceeds it because
\* generate_header runs at most once for a generator.
C12_TagCount ==
    (TifRequest /\ ~ (RangeGet /\ RangeError(Val(Req.range)) # "")) =>
        /\ response.exception = ""
        /\ Ctx.num_tags = 12 + OptionalTags(Ctx)
        /\ Ctx.tags_written <= Ctx.num_tags
        /\ Ctx.tags_written = (IF HeaderGenerated THEN Ctx.num_tags ELSE 0)
        /\ FullGetDone =>
              /\ ReadField(Emitted, Ctx.fmt.sig_size + Ctx.fmt.ifd_offset_size,
                           Ctx.fmt.num_tags_size) = BigOf(Ctx.num_tags)
              /\ getheadersize(rast, Ctx) - SumLen([i \in 1..Len(OutOfLinePayloads(rast, Ctx)) |->
                                                      OutOfLinePayloads(rast, Ctx)[i].data])
                   - DirStart(Ctx) - Ctx.fmt.ifd_offset_size
                   = Ctx.num_tags * Ctx.fmt.tagsize
              /\ \A k \in 1..Ctx.num_tags :
                    ReadEntry(Emitted, Ctx, k - 1).tagid = HeaderTags(rast, Ctx)[k].tagid

\* a Range request starting in the header of a raster with every optional tag
\* was answered, and the assertion passed
C12_Witness ==
    /\ WellFormedRangeGet
    /\ HeaderGenerated
    /\ response.exception = ""
    /\ response.body # <<>>
    /\ Ctx.extrasamples # None /\ Ctx.geotifftags # <<>> /\ Ctx.nodata # None
    /\ Ctx.tags_written = Ctx.num_tags
    /\ Ctx.num_tags > 12

(***************************************************************************)
(* A client that disconnects while the body is streamed.                   *)
(* wfile is the unbuffered socket writer of StreamRequestHandler: once the *)
(* peer is gone request.wfile.write raises BrokenPipeError or              *)
(* ConnectionResetError, whichever the kernel reports.  Neither            *)
(* generate_tiff nor do_GET has a try statement, so the exception leaves   *)
(* the handler; socketserver's handle_error prints the traceback and       *)
(* shutdown_request closes the connection.                                 *)
(***************************************************************************)
\* the largest index of the write that fails
MaxFailedWrite == 2

SinkErrors == {"BrokenPipeError", "ConnectionResetError"}

\* what generate_tiff leaves when its k-th request.wfile.write raises exc:
\* the chunks before it were written, the tile of the k-th chunk was decoded
WriteFails(out, k, exc) ==
    [resp |-> raise([out.resp EXCEPT !.body = SubSeq(@, 1, k - 1)], exc),
     ctx |-> out.ctx,
     decoded |-> SubSeq(out.decoded, 1,
                        Cardinality({j \in 1..k : out.resp.body[j].src = "tile"}))]

\* do_GET on a .tif path, the k-th write of the body failing
do_GET_disconnect(path, range, k, exc) ==
    LET req == [method |-> "GET", path |-> path, range |-> range, fails |-> k]
    IN  /\ endswith(path, DotTif)
        /\ \E c \in {TIFFGenerator(rast)} :
              \E out \in {generate_tiff(rast, c, req)} :
                 /\ out.resp.exception = ""
                 /\ k <= Len(out.resp.body)
                 /\ \E cut \in {WriteFails(out, k, exc)} :
                       Respond(req, cut.resp, Some(cut.ctx), cut.decoded)

NextDisconnect ==
    \/ Next
    \/ /\ Idle
       /\ \E path \in Paths, k \in 1..MaxFailedWrite, exc \in SinkErrors :
             \E range \in RangesFor(path) : do_GET_disconnect(path, range, k, exc)

SpecDisconnect == Init /\ [][NextDisconnect]_vars

\* a write of the response being handled failed
WriteFailed == Handled /\ "fails" \in DOMAIN Req

\* C13: when a write to the client fails while a body is streamed, the chunks
\* before it were written, no tile after the one being written is decoded, and
\* the response ends normally: no exception leaves the handler.
C13_DisconnectIsNormalEnd ==
    WriteFailed =>
        /\ Len(response.body) = Req.fails - 1
        /\ Len(decoded) <= Req.fails
        /\ response.exception = ""

====
